---------------------------- MODULE Spec2Model ----------------------------
(***************************************************************************)
(* A model of mule-gb: the DataReader (src/src/reader.rs) and the          *)
(* cartridge decoder load / parse_header / parse_bank_data                 *)
(* (src/src/lib.rs).                                                       *)
(*                                                                         *)
(* Spec        one call of load(data), one action per statement            *)
(* SpecReader  arbitrary sequences of DataReader operations                *)
(***************************************************************************)
EXTENDS Integers, Sequences, FiniteSets, TLC

VARIABLES
    data,      \* the borrowed byte buffer: [len, img]
    offset,    \* DataReader.offset, the cursor
    pc,        \* the statement load / parse_header is about to execute
    h,         \* the locals of parse_header (the Header under construction)
    result,    \* what load returned: none yet, Ok, Err or a panic
    ret        \* SpecReader: the last DataReader operation and what it returned

vars == <<data, offset, pc, h, result, ret>>

(***************************************************************************)
(* Program constants                                                       *)
(***************************************************************************)
\* 0x33
NEW_LICENCSEE_CODE_VAL == 51
BANK_BYTES == 16 * 1024
\* 0x150
DATA_START == 336

(***************************************************************************)
(* Bounds of the model                                                     *)
(***************************************************************************)
\* how many header fields (or the length) of an input image differ from the
\* baseline image at once
MaxDiff == 2
\* SpecReader: the cursor is not pushed beyond this offset
MaxOffset == 40

(***************************************************************************)
(* The input images.  A buffer is its length and the bytes at the header   *)
(* offsets; every other byte is given by Fill.                             *)
(***************************************************************************)
Fill(i) == (i * 37 + 11) % 256

\* 15-byte contents of 0x134..0x142
TitlePatterns ==
    << <<0, 0, 0, 0, 0, 0, 0, 0, 0, 0, 0, 0, 0, 0, 0>>,
       \* "ZELDA" padded with NUL
       <<90, 69, 76, 68, 65, 0, 0, 0, 0, 0, 0, 0, 0, 0, 0>>,
       \* "A", NUL, 0xFF, "é" (C3 A9), "BCDEF", NUL, "M", NUL, "N", "O"
       <<65, 0, 255, 195, 169, 66, 67, 68, 69, 70, 0, 77, 0, 78, 79>>,
       \* a two-byte character cut by the 11-byte boundary: ... C3 | A9 ...
       <<71, 65, 77, 69, 0, 0, 0, 0, 0, 0, 195, 169, 88, 89, 90>> >>

FieldNames ==
    <<"gbc", "newlic", "sgb", "cart", "rom", "ram", "dest", "old", "title", "lensel">>

\* the all-defaults image: every header byte 0, sized exactly for its ROM size
Baseline ==
    [gbc |-> 0, newlic |-> <<0, 0>>, sgb |-> 0, cart |-> 0, rom |-> 0, ram |-> 0,
     dest |-> 0, old |-> 0, title |-> 1, lensel |-> <<"fit", 0>>]

Alternatives ==
    [gbc    |-> {128, 192, 1, 255},
     \* "00" "01" "08" "B2" "AF" "0A" "B1"
     newlic |-> {<<48, 48>>, <<48, 49>>, <<48, 56>>, <<66, 50>>, <<65, 70>>,
                 <<48, 65>>, <<66, 49>>},
     sgb    |-> {3, 1},
     cart   |-> {19, 255, 4},
     rom    |-> {1, 2, 3, 4, 5, 6, 7, 8, 82, 83, 84, 9, 81},
     ram    |-> {1, 2, 3, 4, 5, 6},
     dest   |-> {1, 2},
     old    |-> {51, 1, 8, 178, 175, 52},
     title  |-> {2, 3, 4},
     lensel |-> {<<"fit", -1>>, <<"fit", 1>>, <<"fit", 0 - BANK_BYTES>>}
                \cup {<<"abs", l>> : l \in {0, 256, 258, 259, 260, 308, 331, 332,
                                            333, 334, 335, 336, 337}}]

RECURSIVE Images(_, _)
Images(i, d) ==
    IF i = 0 THEN {Baseline}
    ELSE Images(i - 1, d) \cup
         (IF d = 0 THEN {}
          ELSE {[r EXCEPT ![FieldNames[i]] = a] :
                    r \in Images(i - 1, d - 1), a \in Alternatives[FieldNames[i]]})

\* the bank count the ROM-size byte of an image asks for (2 when the byte is
\* not a ROM size): only used to size the input buffer
ImageBanks(b) ==
    CASE b = 0 -> 2 [] b = 1 -> 4 [] b = 2 -> 8 [] b = 3 -> 16 [] b = 4 -> 32
      [] b = 5 -> 64 [] b = 6 -> 128 [] b = 7 -> 256 [] b = 8 -> 512
      [] b = 82 -> 72 [] b = 83 -> 80 [] b = 84 -> 96 [] OTHER -> 2

ImageLen(img) ==
    IF img.lensel[1] = "abs" THEN img.lensel[2]
    ELSE ImageBanks(img.rom) * BANK_BYTES + img.lensel[2]

Buffer(img) == [len |-> ImageLen(img), img |-> img]

\* data[i], for 0 <= i < data.len
Byte(d, i) ==
    CASE i = 323 -> d.img.gbc
      [] i = 324 -> d.img.newlic[1]
      [] i = 325 -> d.img.newlic[2]
      [] i = 326 -> d.img.sgb
      [] i = 327 -> d.img.cart
      [] i = 328 -> d.img.rom
      [] i = 329 -> d.img.ram
      [] i = 330 -> d.img.dest
      [] i = 331 -> d.img.old
      [] i >= 308 /\ i <= 322 -> TitlePatterns[d.img.title][i - 307]
      [] OTHER -> Fill(i)

\* data[from .. from + size), as a sequence of bytes
Bytes(d, from, size) == [k \in 1..size |-> Byte(d, from + k - 1)]


(***************************************************************************)
(* DataReader (src/src/reader.rs).  An operation on the reader (data,      *)
(* offset) yields [panic, val, offset]: whether the access panicked (an    *)
(* index out of the slice's range), the value returned and the cursor      *)
(* afterwards.  A panicking operation has not moved the cursor.            *)
(***************************************************************************)
Returned(v, off) == [panic |-> FALSE, val |-> v, offset |-> off]
Panicked(off) == [panic |-> TRUE, val |-> <<>>, offset |-> off]

\* &self.data[from..to]: Rust panics unless from <= to <= len
SliceOk(d, from, to) == from <= to /\ to <= d.len

Get(s, i) == IF i <= Len(s) THEN s[i] ELSE 0
IsCont(b) == b >= 128 /\ b <= 191
\* the second byte a three- or four-byte lead accepts
SecondOk(b, c) ==
    \/ b = 224 /\ c >= 160 /\ c <= 191
    \/ b >= 225 /\ b <= 236 /\ IsCont(c)
    \/ b = 237 /\ c >= 128 /\ c <= 159
    \/ b >= 238 /\ b <= 239 /\ IsCont(c)
    \/ b = 240 /\ c >= 144 /\ c <= 191
    \/ b >= 241 /\ b <= 243 /\ IsCont(c)
    \/ b = 244 /\ c >= 128 /\ c <= 143

\* String::from_utf8_lossy: the code points of s from position i on, every
\* maximal invalid part replaced by U+FFFD (65533)
RECURSIVE from_utf8_lossy(_, _)
from_utf8_lossy(s, i) ==
    IF i > Len(s) THEN <<>>
    ELSE LET b  == s[i]
             c1 == Get(s, i + 1)
             c2 == Get(s, i + 2)
             c3 == Get(s, i + 3)
         IN CASE b < 128 -> <<b>> \o from_utf8_lossy(s, i + 1)
              [] b >= 194 /\ b <= 223 ->
                   IF IsCont(c1)
                   THEN <<(b - 192) * 64 + (c1 - 128)>> \o from_utf8_lossy(s, i + 2)
                   ELSE <<65533>> \o from_utf8_lossy(s, i + 1)
              [] b >= 224 /\ b <= 239 ->
                   IF ~SecondOk(b, c1) THEN <<65533>> \o from_utf8_lossy(s, i + 1)
                   ELSE IF ~IsCont(c2) THEN <<65533>> \o from_utf8_lossy(s, i + 2)
                   ELSE <<(b - 224) * 4096 + (c1 - 128) * 64 + (c2 - 128)>>
                        \o from_utf8_lossy(s, i + 3)
              [] b >= 240 /\ b <= 244 ->
                   IF ~SecondOk(b, c1) THEN <<65533>> \o from_utf8_lossy(s, i + 1)
                   ELSE IF ~IsCont(c2) THEN <<65533>> \o from_utf8_lossy(s, i + 2)
                   ELSE IF ~IsCont(c3) THEN <<65533>> \o from_utf8_lossy(s, i + 3)
                   ELSE <<(b - 240) * 262144 + (c1 - 128) * 4096 + (c2 - 128) * 64
                          + (c3 - 128)>> \o from_utf8_lossy(s, i + 4)
              [] OTHER -> <<65533>> \o from_utf8_lossy(s, i + 1)

read_utf8_string(d, off, size) ==
    IF SliceOk(d, off, off + size)
    THEN Returned(from_utf8_lossy(Bytes(d, off, size), 1), off + size)
    ELSE Panicked(off)

\* the bytes of a little-endian field, most significant first: the base-256
\* numeral of the value from_le_bytes builds
from_le_bytes(bs) == [k \in 1..Len(bs) |-> bs[Len(bs) + 1 - k]]

read_u64(d, off) ==
    IF SliceOk(d, off, off + 8)
    THEN Returned(from_le_bytes(Bytes(d, off, 8)), off + 8)
    ELSE Panicked(off)

read_u32(d, off) ==
    IF SliceOk(d, off, off + 4)
    THEN Returned(from_le_bytes(Bytes(d, off, 4)), off + 4)
    ELSE Panicked(off)

\* the two's-complement numeral, with its sign
read_i32(d, off) ==
    IF SliceOk(d, off, off + 4)
    THEN LET n == from_le_bytes(Bytes(d, off, 4))
         IN Returned([negative |-> n[1] >= 128, bits |-> n], off + 4)
    ELSE Panicked(off)

\* faulty variant: only the first byte's index is checked, a missing high byte reads 0
read_u16_unchecked(d, off) ==
    IF off < d.len
    THEN Returned(Byte(d, off) + 256 * (IF off + 1 < d.len THEN Byte(d, off + 1) ELSE 0),
                  off + 2)
    ELSE Panicked(off)

read_u16(d, off) ==
    IF SliceOk(d, off, off + 2)
    THEN Returned(Byte(d, off) + 256 * Byte(d, off + 1), off + 2)
    ELSE Panicked(off)

read_i16(d, off) ==
    IF SliceOk(d, off, off + 2)
    THEN LET u == Byte(d, off) + 256 * Byte(d, off + 1)
         IN Returned(IF u >= 32768 THEN u - 65536 ELSE u, off + 2)
    ELSE Panicked(off)

read_u8(d, off) ==
    IF off < d.len THEN Returned(Byte(d, off), off + 1) ELSE Panicked(off)

\* faulty variant: the peek moves the cursor behind the byte it read
read_u8_at_seek(d, off, at) ==
    IF at < d.len THEN Returned(Byte(d, at), at + 1) ELSE Panicked(off)

read_u8_at(d, off, at) ==
    IF at < d.len THEN Returned(Byte(d, at), off) ELSE Panicked(off)

read_bool(d, off) ==
    LET u == read_u16(d, off)
    IN IF u.panic THEN u ELSE Returned(u.val # 0, u.offset)

\* the returned slices are kept as their bounds [from, to) in data
unread_bytes(d, off) ==
    IF off <= d.len THEN Returned([from |-> off, to |-> d.len], off)
    ELSE Panicked(off)

slice(d, off, start, end) ==
    IF SliceOk(d, start, end) THEN Returned([from |-> start, to |-> end], off)
    ELSE Panicked(off)

\* faulty variant: one byte short
skip_short(d, off, bytes) == Returned(<<>>, IF bytes > 0 THEN off + bytes - 1 ELSE off)

skip(d, off, bytes) == Returned(<<>>, off + bytes)

reader_offset(d, off) == Returned(off, off)

new_with_offset(d, off) == off

new(d) == new_with_offset(d, 0)


(***************************************************************************)
(* The decoder's lookup tables (src/src/lib.rs).  The enum variants are    *)
(* their names; a Result is [ok, val, err].                                *)
(***************************************************************************)
Ok(v) == [ok |-> TRUE, val |-> v, err |-> <<>>]
Err(m) == [ok |-> FALSE, val |-> "", err |-> m]

HexDigits == <<"0", "1", "2", "3", "4", "5", "6", "7", "8", "9",
               "a", "b", "c", "d", "e", "f">>
\* format!("{:x}", v) of a u8: lower-case hexadecimal, no padding
LowerHex(v) ==
    IF v < 16 THEN <<HexDigits[v + 1]>>
    ELSE <<HexDigits[(v \div 16) + 1], HexDigits[(v % 16) + 1]>>

num_banks(rom_size) ==
    CASE rom_size = "NoBanking" -> 2
      [] rom_size = "Banks4" -> 4
      [] rom_size = "Banks8" -> 8
      [] rom_size = "Banks16" -> 16
      [] rom_size = "Banks32" -> 32
      [] rom_size = "Banks64" -> 64
      [] rom_size = "Banks72" -> 72
      [] rom_size = "Banks80" -> 80
      [] rom_size = "Banks96" -> 96
      [] rom_size = "Banks128" -> 128
      [] rom_size = "Banks256" -> 256
      [] rom_size = "Banks512" -> 512

parse_gbc_flag(flag) ==
    CASE flag = 0 -> Ok("GBOnly")
      [] flag = 128 -> Ok("GBCAndGB")
      [] flag = 192 -> Ok("GBCOnly")
      [] OTHER -> Err(<<"unsupported GBC flag: ">> \o LowerHex(flag))

\* faulty variant: an unlisted SGB flag falls back to NoSGB
parse_sgb_flag_lenient(flag) ==
    CASE flag = 0 -> Ok("NoSGB")
      [] flag = 3 -> Ok("SGBSupport")
      [] OTHER -> Ok("NoSGB")

parse_sgb_flag(flag) ==
    CASE flag = 0 -> Ok("NoSGB")
      [] flag = 3 -> Ok("SGBSupport")
      [] OTHER -> Err(<<"unsupported SGB flag: ">> \o LowerHex(flag))

\* faulty variant: an unlisted cartridge type resolves to an Unknown variant
parse_cartridge_type_unknown(t) ==
    CASE t = 0 -> Ok("ROMOnly")
      [] t = 1 -> Ok("MBC1")
      [] t = 2 -> Ok("MBC1xRAM")
      [] t = 3 -> Ok("MBC1xRAMxBattery")
      [] t = 5 -> Ok("MBC2")
      [] t = 6 -> Ok("MBC2xBattery")
      [] t = 8 -> Ok("ROMxRAM")
      [] t = 9 -> Ok("ROMxRAMxBattery")
      [] t = 11 -> Ok("MMM01")
      [] t = 12 -> Ok("MMM01xRAM")
      [] t = 13 -> Ok("MMM01xRAMxBattery")
      [] t = 15 -> Ok("MBC3xTimerxBattery")
      [] t = 16 -> Ok("MBC3xTimerxRAMxBattery")
      [] t = 17 -> Ok("MBC3")
      [] t = 18 -> Ok("MBC3xRAM")
      [] t = 19 -> Ok("MBC1xRAMxBattery")
      [] t = 25 -> Ok("MBC5")
      [] t = 26 -> Ok("MBC5xRAM")
      [] t = 27 -> Ok("MBC5xRAMxBattery")
      [] t = 28 -> Ok("MBC5xRumble")
      [] t = 29 -> Ok("MBC5xRumblexRAM")
      [] t = 30 -> Ok("MBC5xRumblexRAMxBattery")
      [] t = 32 -> Ok("MBC6")
      [] t = 34 -> Ok("MBC7xSensorxRumblexRAMxBattery")
      [] t = 252 -> Ok("PocketCamera")
      [] t = 253 -> Ok("BandaiTama5")
      [] t = 254 -> Ok("HuC3")
      [] t = 255 -> Ok("HuC1xRAMxBattery")
      [] OTHER -> Ok("Unknown")

parse_cartridge_type(t) ==
    CASE t = 0 -> Ok("ROMOnly")
      [] t = 1 -> Ok("MBC1")
      [] t = 2 -> Ok("MBC1xRAM")
      [] t = 3 -> Ok("MBC1xRAMxBattery")
      [] t = 5 -> Ok("MBC2")
      [] t = 6 -> Ok("MBC2xBattery")
      [] t = 8 -> Ok("ROMxRAM")
      [] t = 9 -> Ok("ROMxRAMxBattery")
      [] t = 11 -> Ok("MMM01")
      [] t = 12 -> Ok("MMM01xRAM")
      [] t = 13 -> Ok("MMM01xRAMxBattery")
      [] t = 15 -> Ok("MBC3xTimerxBattery")
      [] t = 16 -> Ok("MBC3xTimerxRAMxBattery")
      [] t = 17 -> Ok("MBC3")
      [] t = 18 -> Ok("MBC3xRAM")
      [] t = 19 -> Ok("MBC1xRAMxBattery")
      [] t = 25 -> Ok("MBC5")
      [] t = 26 -> Ok("MBC5xRAM")
      [] t = 27 -> Ok("MBC5xRAMxBattery")
      [] t = 28 -> Ok("MBC5xRumble")
      [] t = 29 -> Ok("MBC5xRumblexRAM")
      [] t = 30 -> Ok("MBC5xRumblexRAMxBattery")
      [] t = 32 -> Ok("MBC6")
      [] t = 34 -> Ok("MBC7xSensorxRumblexRAMxBattery")
      [] t = 252 -> Ok("PocketCamera")
      [] t = 253 -> Ok("BandaiTama5")
      [] t = 254 -> Ok("HuC3")
      [] t = 255 -> Ok("HuC1xRAMxBattery")
      [] OTHER -> Err(<<"unsuported cartridge type: ">> \o LowerHex(t))

parse_rom_size(v) ==
    CASE v = 0 -> Ok("NoBanking")
      [] v = 1 -> Ok("Banks4")
      [] v = 2 -> Ok("Banks8")
      [] v = 3 -> Ok("Banks16")
      [] v = 4 -> Ok("Banks32")
      [] v = 5 -> Ok("Banks64")
      [] v = 6 -> Ok("Banks128")
      [] v = 7 -> Ok("Banks256")
      [] v = 8 -> Ok("Banks512")
      [] v = 82 -> Ok("Banks72")
      [] v = 83 -> Ok("Banks80")
      [] v = 84 -> Ok("Banks96")
      [] OTHER -> Err(<<"unsupported rom size: ">> \o LowerHex(v))

\* faulty variant: 0x04 and 0x05 in ascending order of size
parse_ram_size_ascending(v) ==
    CASE v = 0 -> Ok("None")
      [] v = 1 -> Ok("KB2")
      [] v = 2 -> Ok("KB8")
      [] v = 3 -> Ok("KB32")
      [] v = 4 -> Ok("KB64")
      [] v = 5 -> Ok("KB128")
      [] OTHER -> Err(<<"unsupported ram size: ">> \o LowerHex(v))

parse_ram_size(v) ==
    CASE v = 0 -> Ok("None")
      [] v = 1 -> Ok("KB2")
      [] v = 2 -> Ok("KB8")
      [] v = 3 -> Ok("KB32")
      [] v = 4 -> Ok("KB128")
      [] v = 5 -> Ok("KB64")
      [] OTHER -> Err(<<"unsupported ram size: ">> \o LowerHex(v))

parse_destination_code(v) ==
    CASE v = 0 -> Ok("Japanese")
      [] v = 1 -> Ok("NonJapanese")
      [] OTHER -> Err(<<"unsupported destination code: ">> \o LowerHex(v))

\* b"00" is 0x30 0x30, b"B2" is 0x42 0x32, b"AF" is 0x41 0x46
parse_new_licensee_code(code) ==
    CASE code = <<48, 48>> -> "None"
      [] code = <<48, 49>> -> "Nintendo"
      [] code = <<48, 56>> -> "Capcom"
      [] code = <<66, 50>> -> "Bandai"
      [] code = <<65, 70>> -> "Namco"
      [] OTHER -> "Unknown"

parse_old_licensee_code(code) ==
    CASE code = 0 -> "None"
      [] code = 1 -> "Nintendo"
      [] code = 8 -> "Capcom"
      [] code = 178 -> "Bandai"
      [] code = 175 -> "Namco"
      [] OTHER -> "Unknown"

\* str.replace('\0', ""), on the code points of the string
clean_string(str) == SelectSeq(str, LAMBDA c : c # 0)

\* faulty variant: the 11-byte title read one byte too wide
title_size_wide(old_licensee_code) ==
    IF old_licensee_code = NEW_LICENCSEE_CODE_VAL THEN 12 ELSE 15

\* the width of the title field
title_size(old_licensee_code) ==
    IF old_licensee_code = NEW_LICENCSEE_CODE_VAL THEN 11 ELSE 15

\* faulty variant: the new-style pair is never consulted
select_licensee_code_old_only(old_licensee_code, new_licensee_code) ==
    parse_old_licensee_code(old_licensee_code)

select_licensee_code(old_licensee_code, new_licensee_code) ==
    IF old_licensee_code = NEW_LICENCSEE_CODE_VAL
    THEN parse_new_licensee_code(new_licensee_code)
    ELSE parse_old_licensee_code(old_licensee_code)

(***************************************************************************)
(* parse_bank_data                                                         *)
(***************************************************************************)
\* faulty variant: no bank is shortened by the header region
bank_size_full(b, n) == BANK_BYTES

bank_size(b, n) == IF b = n - 1 THEN BANK_BYTES - DATA_START ELSE BANK_BYTES

\* the inner loop: size times bank.push(reader.read_u8()).  A bank is kept
\* as the place its bytes were copied from: data[from .. from + size).
read_bank(d, off, size) ==
    IF off + size <= d.len
    THEN Returned([from |-> off, size |-> size], off + size)
    ELSE [panic |-> TRUE, val |-> <<>>, offset |-> d.len]

\* for b in lo..hi: the iterations run in order, each from the cursor the one
\* before left; the range is halved only to keep the evaluation shallow
RECURSIVE bank_loop(_, _, _, _, _)
bank_loop(d, off, n, lo, hi) ==
    IF lo = hi THEN Returned(<<>>, off)
    ELSE IF hi = lo + 1
    THEN LET r == read_bank(d, off, bank_size(lo, n))
         IN IF r.panic THEN r ELSE Returned(<<r.val>>, r.offset)
    ELSE LET mid   == (lo + hi) \div 2
             first == bank_loop(d, off, n, lo, mid)
         IN IF first.panic THEN first
            ELSE LET rest == bank_loop(d, first.offset, n, mid, hi)
                 IN IF rest.panic THEN rest
                    ELSE Returned(first.val \o rest.val, rest.offset)

parse_bank_data(d, off, rom_size) ==
    LET n == num_banks(rom_size) IN bank_loop(d, off, n, 0, n)


(***************************************************************************)
(* load(data): one action per statement of load and parse_header.          *)
(***************************************************************************)
NoLocals ==
    [entry_point |-> <<>>, old_licensee_code |-> -1, game_title |-> <<>>,
     manufacturer_code |-> <<>>, gbc_flag |-> "", new_licensee_code |-> <<>>,
     licensee_code |-> "", sgb_flag |-> "", cartridge_type |-> "", rom_size |-> "",
     ram_size |-> "", destination_code |-> "", rom_version |-> -1, checksum |-> -1,
     global_checksum |-> -1, bank_data |-> <<>>]

\* Header { entry_point, game_title, ... } built from the locals
Header(l) ==
    [entry_point |-> l.entry_point, game_title |-> l.game_title,
     manufacturer_code |-> l.manufacturer_code, gbc_flag |-> l.gbc_flag,
     licensee_code |-> l.licensee_code, sgb_flag |-> l.sgb_flag,
     cartridge_type |-> l.cartridge_type, rom_size |-> l.rom_size,
     ram_size |-> l.ram_size, destination_code |-> l.destination_code,
     rom_version |-> l.rom_version, checksum |-> l.checksum,
     global_checksum |-> l.global_checksum]

\* what load returned; header and bank_data hold at most one element
NoResult == [kind |-> "none", err |-> <<>>, header |-> {}, bank_data |-> {}]
PanicResult == [kind |-> "panic", err |-> <<>>, header |-> {}, bank_data |-> {}]
ErrResult(m) == [kind |-> "Err", err |-> m, header |-> {}, bank_data |-> {}]
OkResult(l) ==
    [kind |-> "Ok", err |-> <<>>, header |-> {Header(l)}, bank_data |-> {l.bank_data}]

NoRet == [op |-> "none", arg |-> <<>>, panic |-> FALSE, val |-> <<>>]

Init ==
    /\ \E img \in Images(Len(FieldNames), MaxDiff) : data = Buffer(img)
    /\ offset = new(data)
    /\ pc = "parse_vectors"
    /\ h = NoLocals
    /\ result = NoResult
    /\ ret = NoRet

\* a reader operation r followed by the locals' update and the next statement;
\* a panic unwinds load
Step(r, locals, next) ==
    /\ offset' = r.offset
    /\ IF r.panic
       THEN pc' = "done" /\ result' = PanicResult /\ h' = h
       ELSE pc' = next /\ result' = result /\ h' = locals
    /\ UNCHANGED <<data, ret>>

\* let f = parse(reader.read_u8())?;
Parsed(r, p, f, next) ==
    /\ offset' = r.offset
    /\ IF r.panic
       THEN pc' = "done" /\ result' = PanicResult /\ h' = h
       ELSE IF ~p.ok
       THEN pc' = "done" /\ result' = ErrResult(p.err) /\ h' = h
       ELSE pc' = next /\ result' = result /\ h' = [h EXCEPT ![f] = p.val]
    /\ UNCHANGED <<data, ret>>

parse_vectors ==
    /\ pc = "parse_vectors"
    /\ Step(skip(data, offset, 256), h, "entry_point")

ReadEntryPoint ==
    /\ pc = "entry_point"
    /\ LET r == read_u8(data, offset)
           e == Append(h.entry_point, r.val)
       IN Step(r, [h EXCEPT !.entry_point = e],
               IF Len(e) = 4 THEN "skip_logo" ELSE "entry_point")

SkipLogo ==
    /\ pc = "skip_logo"
    /\ Step(skip(data, offset, 48), h, "old_licensee_code")

PeekOldLicenseeCode ==
    /\ pc = "old_licensee_code"
    /\ LET r == read_u8_at(data, offset, 331)
       IN Step(r, [h EXCEPT !.old_licensee_code = r.val], "game_title")

ReadGameTitle ==
    /\ pc = "game_title"
    /\ LET r == read_utf8_string(data, offset, title_size(h.old_licensee_code))
       IN Step(r, [h EXCEPT !.game_title = clean_string(r.val)], "manufacturer_code")

ReadManufacturerCode ==
    /\ pc = "manufacturer_code"
    /\ IF h.old_licensee_code = NEW_LICENCSEE_CODE_VAL
       THEN LET r == read_utf8_string(data, offset, 4)
            IN Step(r, [h EXCEPT !.manufacturer_code = clean_string(r.val)], "gbc_flag")
       ELSE /\ pc' = "gbc_flag"
            /\ UNCHANGED <<data, offset, h, result, ret>>

ReadGbcFlag ==
    /\ pc = "gbc_flag"
    /\ LET r == read_u8(data, offset)
       IN Parsed(r, parse_gbc_flag(r.val), "gbc_flag", "new_licensee_code")

ReadNewLicenseeCode ==
    /\ pc = "new_licensee_code"
    /\ LET r == read_u8(data, offset)
           c == Append(h.new_licensee_code, r.val)
       IN Step(r, [h EXCEPT !.new_licensee_code = c],
               IF Len(c) = 2 THEN "licensee_code" ELSE "new_licensee_code")

SelectLicenseeCode ==
    /\ pc = "licensee_code"
    /\ h' = [h EXCEPT !.licensee_code =
                select_licensee_code(h.old_licensee_code, h.new_licensee_code)]
    /\ pc' = "sgb_flag"
    /\ UNCHANGED <<data, offset, result, ret>>

ReadSgbFlag ==
    /\ pc = "sgb_flag"
    /\ LET r == read_u8(data, offset)
       IN Parsed(r, parse_sgb_flag(r.val), "sgb_flag", "cartridge_type")

ReadCartridgeType ==
    /\ pc = "cartridge_type"
    /\ LET r == read_u8(data, offset)
       IN Parsed(r, parse_cartridge_type(r.val), "cartridge_type", "rom_size")

ReadRomSize ==
    /\ pc = "rom_size"
    /\ LET r == read_u8(data, offset)
       IN Parsed(r, parse_rom_size(r.val), "rom_size", "ram_size")

ReadRamSize ==
    /\ pc = "ram_size"
    /\ LET r == read_u8(data, offset)
       IN Parsed(r, parse_ram_size(r.val), "ram_size", "destination_code")

ReadDestinationCode ==
    /\ pc = "destination_code"
    /\ LET r == read_u8(data, offset)
       IN Parsed(r, parse_destination_code(r.val), "destination_code",
                 "skip_old_licensee_code")

SkipOldLicenseeCode ==
    /\ pc = "skip_old_licensee_code"
    /\ Step(skip(data, offset, 1), h, "rom_version")

ReadRomVersion ==
    /\ pc = "rom_version"
    /\ LET r == read_u8(data, offset)
       IN Step(r, [h EXCEPT !.rom_version = r.val], "checksum")

ReadChecksum ==
    /\ pc = "checksum"
    /\ LET r == read_u8(data, offset)
       IN Step(r, [h EXCEPT !.checksum = r.val], "global_checksum")

ReadGlobalChecksum ==
    /\ pc = "global_checksum"
    /\ LET r == read_u16(data, offset)
       IN Step(r, [h EXCEPT !.global_checksum = r.val], "parse_bank_data")

ParseBankData ==
    /\ pc = "parse_bank_data"
    /\ LET r == parse_bank_data(data, offset, h.rom_size)
       IN Step(r, [h EXCEPT !.bank_data = r.val], "return")

Return ==
    /\ pc = "return"
    /\ pc' = "done"
    /\ result' = OkResult(h)
    /\ UNCHANGED <<data, offset, h, ret>>

Next ==
    \/ parse_vectors
    \/ ReadEntryPoint
    \/ SkipLogo
    \/ PeekOldLicenseeCode
    \/ ReadGameTitle
    \/ ReadManufacturerCode
    \/ ReadGbcFlag
    \/ ReadNewLicenseeCode
    \/ SelectLicenseeCode
    \/ ReadSgbFlag
    \/ ReadCartridgeType
    \/ ReadRomSize
    \/ ReadRamSize
    \/ ReadDestinationCode
    \/ SkipOldLicenseeCode
    \/ ReadRomVersion
    \/ ReadChecksum
    \/ ReadGlobalChecksum
    \/ ParseBankData
    \/ Return

Spec == Init /\ [][Next]_vars


(***************************************************************************)
(* SpecReader: a DataReader built by new_with_offset and driven by any     *)
(* sequence of its operations, until one panics.                           *)
(***************************************************************************)
ReaderLens == {0, 1, 9, 30}
ReaderStarts == {0, 5, 33}
SkipSizes == {0, 1, 3, 8}
StringSizes == {0, 1, 4, 11}
Positions == {0, 4, 9, 10, 29, 30, 31}

InitReader ==
    /\ \E l \in ReaderLens : data = Buffer([Baseline EXCEPT !.lensel = <<"abs", l>>])
    /\ \E o \in ReaderStarts : offset = new_with_offset(data, o)
    /\ pc = "reader"
    /\ h = NoLocals
    /\ result = NoResult
    /\ ret = NoRet

\* the operation op(arg) was called and yielded r
Call(op, arg, r) ==
    /\ pc = "reader"
    /\ r.offset <= MaxOffset
    /\ offset' = r.offset
    /\ ret' = [op |-> op, arg |-> arg, panic |-> r.panic, val |-> r.val]
    /\ pc' = IF r.panic THEN "panicked" ELSE "reader"
    /\ UNCHANGED <<data, h, result>>

CallReadUtf8String == \E n \in StringSizes :
    Call("read_utf8_string", <<n>>, read_utf8_string(data, offset, n))
CallReadU64 == Call("read_u64", <<>>, read_u64(data, offset))
CallReadU32 == Call("read_u32", <<>>, read_u32(data, offset))
CallReadI32 == Call("read_i32", <<>>, read_i32(data, offset))
CallReadU16 == Call("read_u16", <<>>, read_u16(data, offset))
CallReadI16 == Call("read_i16", <<>>, read_i16(data, offset))
CallReadU8 == Call("read_u8", <<>>, read_u8(data, offset))
CallReadU8At == \E at \in Positions :
    Call("read_u8_at", <<at>>, read_u8_at(data, offset, at))
CallReadBool == Call("read_bool", <<>>, read_bool(data, offset))
CallUnreadBytes == Call("unread_bytes", <<>>, unread_bytes(data, offset))
CallSlice == \E start \in Positions, end \in Positions :
    Call("slice", <<start, end>>, slice(data, offset, start, end))
CallSkip == \E n \in SkipSizes : Call("skip", <<n>>, skip(data, offset, n))
CallOffset == Call("offset", <<>>, reader_offset(data, offset))

NextReader ==
    \/ CallReadUtf8String
    \/ CallReadU64
    \/ CallReadU32
    \/ CallReadI32
    \/ CallReadU16
    \/ CallReadI16
    \/ CallReadU8
    \/ CallReadU8At
    \/ CallReadBool
    \/ CallUnreadBytes
    \/ CallSlice
    \/ CallSkip
    \/ CallOffset

SpecReader == InitReader /\ [][NextReader]_vars


(***************************************************************************)
(* What the specification documents, stated independently of the decoder:  *)
(* the header layout and the lookup tables.                                *)
(***************************************************************************)
\* the raw byte of each table-checked field in the buffer
GbcByte == Byte(data, 323)
NewLicenseeBytes == <<Byte(data, 324), Byte(data, 325)>>
SgbByte == Byte(data, 326)
CartridgeByte == Byte(data, 327)
RomByte == Byte(data, 328)
RamByte == Byte(data, 329)
DestinationByte == Byte(data, 330)
OldLicenseeByte == Byte(data, 331)

\* every header byte up to the old licensee code is in the buffer
HeaderPresent == data.len >= 332

DocGbc == (0 :> "GBOnly") @@ (128 :> "GBCAndGB") @@ (192 :> "GBCOnly")
DocSgb == (0 :> "NoSGB") @@ (3 :> "SGBSupport")
DocDestination == (0 :> "Japanese") @@ (1 :> "NonJapanese")
DocRam == (0 :> "None") @@ (1 :> "KB2") @@ (2 :> "KB8") @@ (3 :> "KB32")
          @@ (4 :> "KB128") @@ (5 :> "KB64")
DocBanks == (0 :> 2) @@ (1 :> 4) @@ (2 :> 8) @@ (3 :> 16) @@ (4 :> 32) @@ (5 :> 64)
            @@ (6 :> 128) @@ (7 :> 256) @@ (8 :> 512) @@ (82 :> 72) @@ (83 :> 80)
            @@ (84 :> 96)
DocCartridgeBytes ==
    {0, 1, 2, 3, 5, 6, 8, 9, 11, 12, 13, 15, 16, 17, 18, 19, 25, 26, 27, 28, 29, 30,
     32, 34, 252, 253, 254, 255}

DocLicenseePairs ==
    (<<48, 48>> :> "None") @@ (<<48, 49>> :> "Nintendo") @@ (<<48, 56>> :> "Capcom")
    @@ (<<66, 50>> :> "Bandai") @@ (<<65, 70>> :> "Namco")
DocLicenseeBytes ==
    (0 :> "None") @@ (1 :> "Nintendo") @@ (8 :> "Capcom") @@ (178 :> "Bandai")
    @@ (175 :> "Namco")
DocLicensee(old, pair) ==
    IF old = 51
    THEN IF pair \in DOMAIN DocLicenseePairs THEN DocLicenseePairs[pair] ELSE "Unknown"
    ELSE IF old \in DOMAIN DocLicenseeBytes THEN DocLicenseeBytes[old] ELSE "Unknown"

\* the value a lower-case hexadecimal numeral denotes
HexAlphabet == <<"0", "1", "2", "3", "4", "5", "6", "7", "8", "9",
                 "a", "b", "c", "d", "e", "f">>
HexDigitValue(c) == (CHOOSE k \in 1..16 : HexAlphabet[k] = c) - 1
RECURSIVE HexValue(_)
HexValue(ds) ==
    IF ds = <<>> THEN 0
    ELSE 16 * HexValue(SubSeq(ds, 1, Len(ds) - 1)) + HexDigitValue(ds[Len(ds)])

\* the error message names the field and gives the raw byte
Names(err, field, byte) ==
    /\ Len(err) >= 2
    /\ err[1] = field
    /\ \A k \in 2..Len(err) : \E j \in 1..16 : HexAlphabet[j] = err[k]
    /\ HexValue(Tail(err)) = byte

\* the strict fields in read order: message, raw byte, offset, listed bytes
StrictFields ==
    << [name |-> "unsupported GBC flag: ", byte |-> GbcByte, at |-> 323,
        listed |-> DOMAIN DocGbc],
       [name |-> "unsupported SGB flag: ", byte |-> SgbByte, at |-> 326,
        listed |-> DOMAIN DocSgb],
       [name |-> "unsupported rom size: ", byte |-> RomByte, at |-> 328,
        listed |-> DOMAIN DocBanks],
       [name |-> "unsupported ram size: ", byte |-> RamByte, at |-> 329,
        listed |-> DOMAIN DocRam],
       [name |-> "unsupported destination code: ", byte |-> DestinationByte,
        at |-> 330, listed |-> DOMAIN DocDestination] >>

CartridgeField ==
    [name |-> "unsuported cartridge type: ", byte |-> CartridgeByte, at |-> 327,
     listed |-> DocCartridgeBytes]

\* the fields whose unlisted byte the decoder rejects, in read order
CheckedFields ==
    <<StrictFields[1], StrictFields[2], CartridgeField, StrictFields[3],
      StrictFields[4], StrictFields[5]>>

Unlisted(fields) == {k \in 1..Len(fields) : fields[k].byte \notin fields[k].listed}
FirstUnlisted(fields) ==
    fields[CHOOSE k \in Unlisted(fields) : \A j \in Unlisted(fields) : k <= j]

\* load returned Err for field f and read nothing after f's byte
HaltedAt(f) ==
    /\ result.kind = "Err"
    /\ Names(result.err, f.name, f.byte)
    /\ result.header = {}
    /\ result.bank_data = {}
    /\ offset = f.at + 1


\* banks lie one after the other in the buffer, from offset from up to offset to
Contiguous(banks, from, to) ==
    /\ Len(banks) >= 1
    /\ banks[1].from = from
    /\ \A k \in 1..(Len(banks) - 1) : banks[k + 1].from = banks[k].from + banks[k].size
    /\ banks[Len(banks)].from + banks[Len(banks)].size = to

AllListed == Unlisted(CheckedFields) = {}

(***************************************************************************)
(* The claims                                                              *)
(***************************************************************************)

\* C1: a successful load returns exactly num_banks(rom_size) banks in buffer
\* order; the bank at index 0 has BANK_BYTES - DATA_START bytes and every
\* other bank has BANK_BYTES bytes.
C1_FirstBankIsShort ==
    result.kind = "Ok" =>
        \A banks \in result.bank_data :
            /\ Len(banks) = DocBanks[RomByte]
            /\ \A k \in 1..(Len(banks) - 1) : banks[k].from < banks[k + 1].from
            /\ banks[1].size = BANK_BYTES - DATA_START
            /\ \A k \in 2..Len(banks) : banks[k].size = BANK_BYTES

\* C2: when the byte at 0x14B is 0x33 the title is read from exactly the 11
\* bytes at 0x134 and the manufacturer code from the 4 bytes after them;
\* otherwise the title is read from the 15 bytes at 0x134 and the manufacturer
\* code is empty; either way the GBC flag is read with the cursor at 0x143.
C2_TitleLayout ==
    LET titleBytes == IF OldLicenseeByte = 51 THEN 11 ELSE 15
        title == clean_string(from_utf8_lossy(Bytes(data, 308, titleBytes), 1))
        manufacturer ==
            IF OldLicenseeByte = 51
            THEN clean_string(from_utf8_lossy(Bytes(data, 308 + 11, 4), 1))
            ELSE <<>>
    IN /\ pc = "gbc_flag" =>
            /\ offset = 308 + 15
            /\ h.game_title = title
            /\ h.manufacturer_code = manufacturer
       /\ \A hd \in result.header :
            /\ hd.game_title = title
            /\ hd.manufacturer_code = manufacturer

C2_Witness ==
    /\ pc = "gbc_flag"
    /\ OldLicenseeByte = 51
    /\ data.img.title = 4
    /\ Len(h.game_title) = 5
    /\ h.manufacturer_code = <<65533, 88, 89, 90>>

C5_LicenseeCode ==
    /\ h.licensee_code # "" =>
            h.licensee_code = DocLicensee(OldLicenseeByte, NewLicenseeBytes)
    /\ pc = "licensee_code" => h.new_licensee_code = NewLicenseeBytes
    /\ pc = "sgb_flag" => offset = 326
    /\ \A hd \in result.header :
            hd.licensee_code = DocLicensee(OldLicenseeByte, NewLicenseeBytes)
    /\ (pc = "done" /\ AllListed) => result.kind # "Err"

C5_Witness ==
    /\ result.kind = "Ok"
    /\ OldLicenseeByte = 51
    /\ NewLicenseeBytes = <<66, 50>>
    /\ \E hd \in result.header : hd.licensee_code = "Bandai"

\* C6: every listed byte of the GBC flag, SGB flag, destination code, RAM size
\* and ROM size decodes to its documented variant (RAM 0x04 is 128KB and 0x05
\* is 64KB), the ROM size as the bank count num_banks reports.
C6_Tables ==
    LET Decodes(variant, name, byte, doc) ==
            /\ variant # "" => (byte \in DOMAIN doc /\ variant = doc[byte])
            /\ (result.kind = "Err" /\ result.err[1] = name) => byte \notin DOMAIN doc
    IN /\ Decodes(h.gbc_flag, StrictFields[1].name, GbcByte, DocGbc)
       /\ Decodes(h.sgb_flag, StrictFields[2].name, SgbByte, DocSgb)
       /\ Decodes(h.ram_size, StrictFields[4].name, RamByte, DocRam)
       /\ Decodes(h.destination_code, StrictFields[5].name, DestinationByte,
                  DocDestination)
       /\ h.rom_size # "" =>
            (RomByte \in DOMAIN DocBanks /\ num_banks(h.rom_size) = DocBanks[RomByte])
       /\ (result.kind = "Err" /\ result.err[1] = StrictFields[3].name) =>
            RomByte \notin DOMAIN DocBanks
       /\ \A hd \in result.header :
            /\ hd.gbc_flag = DocGbc[GbcByte]
            /\ hd.sgb_flag = DocSgb[SgbByte]
            /\ num_banks(hd.rom_size) = DocBanks[RomByte]
            /\ hd.ram_size = DocRam[RamByte]
            /\ hd.destination_code = DocDestination[DestinationByte]

C6_Witness ==
    /\ result.kind = "Ok"
    /\ RamByte = 4
    /\ RomByte = 82
    /\ \E hd \in result.header : hd.ram_size = "KB128" /\ hd.rom_size = "Banks72"


\* C7: an access outside the buffer is fatal: whenever load is about to make a
\* read whose byte range is not inside the buffer, its next step ends the call
\* in a panic; an Err that load returns is always one of the unsupported-value
\* errors, never one for the truncation.
OutOfRange ==
    \/ /\ pc \in {"entry_point", "gbc_flag", "new_licensee_code", "sgb_flag",
                  "cartridge_type", "rom_size", "ram_size", "destination_code",
                  "rom_version", "checksum"}
       /\ offset >= data.len
    \/ pc = "old_licensee_code" /\ 331 >= data.len
    \/ pc = "game_title" /\ offset + (IF OldLicenseeByte = 51 THEN 11 ELSE 15) > data.len
    \/ pc = "manufacturer_code" /\ h.old_licensee_code = 51 /\ offset + 4 > data.len
    \/ pc = "global_checksum" /\ offset + 2 > data.len
    \/ pc = "parse_bank_data" /\ RomByte \in DOMAIN DocBanks
          /\ DocBanks[RomByte] * BANK_BYTES > data.len

C7_OutOfRangeIsFatal ==
    /\ [][OutOfRange => (pc' = "done" /\ result'.kind = "panic")]_vars
    /\ [](result.kind = "Err" =>
            \E k \in 1..Len(CheckedFields) : result.err[1] = CheckedFields[k].name)
    /\ [](result.kind = "panic" => (result.header = {} /\ result.bank_data = {}))

C7_Witness ==
    /\ pc = "done"
    /\ result.kind = "panic"
    /\ data.len = 335
    /\ offset = 334
    /\ h.checksum # -1

\* C8: over any sequence of DataReader operations the cursor never decreases:
\* a typed read advances it by its width, read_utf8_string(n) and skip(n) by n,
\* and read_u8_at, slice, unread_bytes and offset leave it where it is (as does
\* an operation that panics).
Advance(op, arg) ==
    CASE op = "read_u8" -> 1
      [] op \in {"read_u16", "read_i16", "read_bool"} -> 2
      [] op \in {"read_u32", "read_i32"} -> 4
      [] op = "read_u64" -> 8
      [] op \in {"read_utf8_string", "skip"} -> arg[1]
      [] op \in {"read_u8_at", "slice", "unread_bytes", "offset"} -> 0

C8_CursorNeverDecreases ==
    [][/\ offset' >= offset
       /\ offset' = offset + (IF ret'.panic THEN 0 ELSE Advance(ret'.op, ret'.arg))]_vars

C8_Witness ==
    /\ ret.op = "read_u8_at"
    /\ ret.arg = <<29>>
    /\ ~ret.panic
    /\ offset = 12

\* C9: in both title layouts the one-byte skip for the old licensee code is
\* executed with the cursor at 0x14B, and the cursor is DATA_START (0x150) when
\* parse_header has returned and bank reading begins.
C9_CursorAtFixedOffsets ==
    /\ pc = "skip_old_licensee_code" => offset = 331
    /\ pc = "parse_bank_data" => (offset = 336 /\ offset = DATA_START)

C9_Witness ==
    /\ pc = "parse_bank_data"
    /\ OldLicenseeByte = 51
    /\ h.manufacturer_code # <<>>
    /\ offset = 336

\* C10: when every checked header field is listed, load succeeds exactly when
\* the buffer holds at least num_banks * BANK_BYTES bytes; it then ends with
\* the cursor at num_banks * BANK_BYTES, the banks being the buffer's bytes
\* from 0x150 up to the cursor, whatever follows them.
C10_SucceedsIffLongEnough ==
    (pc = "done" /\ AllListed) =>
        LET total == DocBanks[RomByte] * BANK_BYTES
        IN /\ result.kind = "Ok" <=> data.len >= total
           /\ result.kind # "Ok" => result.kind = "panic"
           /\ result.kind = "Ok" =>
                /\ offset = total
                /\ result.bank_data # {}
                /\ \A banks \in result.bank_data : Contiguous(banks, 336, offset)

C10_Witness ==
    /\ result.kind = "Ok"
    /\ RomByte = 84
    /\ offset = 96 * BANK_BYTES
    /\ data.len = offset + 1

=============================================================================
